---- MODULE Spec2Model ----
(***************************************************************************)
(* Model of the trajectory-coordination engine of the drone swarm          *)
(* (decision_making/Coordinator.py) and of the objects around it.          *)
(*                                                                         *)
(* Numbers.  Arclengths are whole numbers of length units.  The tolerance  *)
(* EPS is one length unit and the velocity cap MAX_VEL is two units per    *)
(* second, so that EPS is smaller than MAX_VEL, as the code needs for its  *)
(* velocity comparisons (v < EPS, abs(vl - vr) > EPS).  Times are kept in  *)
(* ticks of 1/MAX_VEL seconds: every dt the code computes is a distance    *)
(* divided by MAX_VEL, hence a whole number of ticks.  A float is a pair   *)
(* <<kind, value>>: kind 0 is a finite number of ticks, 1 is +inf, -1 is   *)
(* -inf and 2 is nan (numpy division by a zero velocity).                  *)
(***************************************************************************)
EXTENDS Integers, Sequences, FiniteSets, TLC

\* representations.Constants.EPS and MAX_VEL (imported by Coordinator.py,
\* lines 5-6), scaled to whole numbers
EPS == 1
MAX_VEL == 2

\* Bound of the model: the longest path, in length units
MaxLen == 6

VARIABLES
    pc,             \* position of the coordinate call: "idle", "loop", "done", "failed"
    paths,          \* the caller's mapping drone_id -> Path, in dict order
    n_drones,       \* self.__n_drones
    i_to_drone_id,  \* self.__i_to_drone_id
    delta,          \* self.__delta
    self_x,         \* self.__x
    x_from,         \* the conflict table in self.__delta when self.__x was assigned
    x,              \* local x of coordinate: list of position vectors
    t,              \* local t of coordinate: list of times (ticks)
    x_goal,         \* local x_goal of coordinate: the length of every path
    result,         \* what coordinate returned
    error,          \* the ValueError raised, or "none"
    calls,          \* the calls of coordinate made on this Coordinator
    ref,            \* what an earlier, fresh Coordinator gave for an input
    lock,           \* Swarm.__lock: "free", or the thread that holds it
    tick,           \* position of the pipeline thread of Swarm.run_thread
    is_stopped,     \* Swarm.__is_stopped
    drones,         \* the keys of Swarm.__drones
    paused,         \* the pause flag kept by DecisionMaking
    goal_pose,      \* the goal pose given to unpause, 0 before
    cmd,            \* the last direct command to a drone (goto, stop)
    seen,           \* what the running tick has read of the fleet state
    caller,         \* the thread that calls the methods of Swarm
    counter,        \* VisualizationPublisher.__counter
    vis_pc,         \* position of a call of visualize: "idle" or "loop"
    todo,           \* the drones the loop of visualize has still to go through
    markers,        \* drones_markers.markers: the colour of every marker
    vis_error,      \* the exception that ended the last call of visualize, or "none"
    cf_calls,       \* the calls made on a Crazyflie, with what its state machine answered
    cf_todo,        \* what the running method of the Crazyflie has still to send
    cf_sent         \* what the Crazyflie has sent to its services and its state machine

\* the variables of the Coordinator and of a call of coordinate
coord_vars == <<pc, paths, n_drones, i_to_drone_id, delta, self_x, x_from, x, t, x_goal,
                result, error, calls, ref>>

\* the variables of the VisualizationPublisher
vis_vars == <<counter, vis_pc, todo, markers, vis_error>>

\* the variables of a Crazyflie
cf_vars == <<cf_calls, cf_todo, cf_sent>>

\* the fields of the Swarm and the positions of its threads
swarm_vars == <<lock, tick, is_stopped, drones, paused, goal_pose, cmd, seen, caller>>

\* the variables of the Swarm, its threads and the objects it holds
fleet_vars == <<swarm_vars, vis_vars, cf_vars>>

\* the variables no step of the Swarm's threads writes
beside_swarm == <<coord_vars, vis_vars, cf_vars>>

vars == <<coord_vars, fleet_vars>>

----------------------------------------------------------------------------
\* Arithmetic helpers

Abs(a) == IF a < 0 THEN -a ELSE a

Fin(n) == <<0, n>>
PINF == <<1, 0>>
NINF == <<-1, 0>>
NAN == <<2, 0>>

\* a < b on floats; every comparison with nan is false
FLess(a, b) ==
    IF a[1] = 2 \/ b[1] = 2 THEN FALSE
    ELSE IF a[1] = 0 /\ b[1] = 0 THEN a[2] < b[2]
    ELSE a[1] < b[1]

\* Python's min(a, b): b only if b < a
PyMin(a, b) == IF FLess(b, a) THEN b ELSE a

\* num / v in ticks, for a distance num and a velocity v (a numpy float64:
\* dividing by 0.0 gives inf, -inf or nan, not an exception)
DivVel(num, v) ==
    IF v = 0
    THEN IF num > 0 THEN PINF ELSE IF num < 0 THEN NINF ELSE NAN
    ELSE Fin((num * MAX_VEL) \div v)

----------------------------------------------------------------------------
\* Geometry: Point and Segment in a pair's configuration space (z = 0)

Pt(px, py) == [x |-> px, y |-> py]
Seg(pa, pb) == [a |-> pa, b |-> pb]

\* square of Point.dist
Dist2(p, q) == (p.x - q.x) * (p.x - q.x) + (p.y - q.y) * (p.y - q.y)

\* Point.__eq__: dist < EPS
PointEq(p, q) == Dist2(p, q) < EPS * EPS

Min2(a, b) == IF a < b THEN a ELSE b
Max2(a, b) == IF a < b THEN b ELSE a

\* closest coordinate to c within [lo, hi]
Clamp(c, lo, hi) == IF c < lo THEN lo ELSE IF c > hi THEN hi ELSE c

\* Segment.contains for the axis-parallel segments the Coordinator builds:
\* the point is within EPS of the segment
SegContains(seg, p) ==
    LET cx == Clamp(p.x, Min2(seg.a.x, seg.b.x), Max2(seg.a.x, seg.b.x))
        cy == Clamp(p.y, Min2(seg.a.y, seg.b.y), Max2(seg.a.y, seg.b.y))
    IN  Dist2(p, Pt(cx, cy)) < EPS * EPS

\* Segment.intersection_with_line_2d: the ray from p along vec crosses the
\* segment.  For a vertical segment the ray must advance in x and meet the
\* segment's line at a y within the segment; mirrored for a horizontal one.
SegIntersectsRay(seg, p, vec) ==
    IF seg.a.x = seg.b.x
    THEN /\ vec.x # 0
         /\ (seg.a.x - p.x) * vec.x >= 0
         /\ LET lo == Min2(seg.a.y, seg.b.y)
                hi == Max2(seg.a.y, seg.b.y)
            IN  /\ p.y * vec.x + (seg.a.x - p.x) * vec.y >= lo * vec.x
                /\ p.y * vec.x + (seg.a.x - p.x) * vec.y <= hi * vec.x
    ELSE /\ vec.y # 0
         /\ (seg.a.y - p.y) * vec.y >= 0
         /\ LET lo == Min2(seg.a.x, seg.b.x)
                hi == Max2(seg.a.x, seg.b.x)
            IN  /\ p.x * vec.y + (seg.a.y - p.y) * vec.x >= lo * vec.y
                /\ p.x * vec.y + (seg.a.y - p.y) * vec.x <= hi * vec.y

----------------------------------------------------------------------------
\* Path: a drone id and the poses to fly through.  The poses lie on a straight
\* line and are given by their coordinate on it.  Poses and times of keyframes
\* are fractions <<num, den>> with den > 0.

Frac(n) == <<n, 1>>
FracLess(a, b) == a[1] * b[2] < b[1] * a[2]
FracEq(a, b) == a[1] * b[2] = b[1] * a[2]
FracLeq(a, b) == a[1] * b[2] <= b[1] * a[2]

\* Path.get_lengths: the cumulative distance to each pose
RECURSIVE GetLengths(_)
GetLengths(poses) ==
    IF Len(poses) <= 1 THEN [k \in 1..Len(poses) |-> 0]
    ELSE LET front == GetLengths(SubSeq(poses, 1, Len(poses) - 1))
         IN  Append(front, front[Len(front)]
                           + Abs(poses[Len(poses)] - poses[Len(poses) - 1]))

\* Path.length
PathLength(p) == GetLengths(p.poses)[Len(p.poses)]

\* old_paths[drone_id]
PathOf(ps, id) == ps[CHOOSE k \in 1..Len(ps) : ps[k].id = id]

\* Path.add_pose(pose, time): appends a keyframe
AddPose(path, pose, time) == Append(path, [pose |-> pose, time |-> time])

----------------------------------------------------------------------------
\* Coordinator.__maximal_velocity

\* self.__delta[self.__i_to_drone_id[i], self.__i_to_drone_id[j]]
Inters(i, j) == delta[<<i_to_drone_id[i], i_to_drone_id[j]>>]

\* BlocksI without the tolerance on the start of interval_1: a drone standing
\* exactly on the left edge is not held
BlocksI_NoTolerance(inter, xi, xj) ==
    /\ inter.orientation = 1
    /\ xi > inter.interval_1[1]
    /\ xj < inter.interval_2[2] - EPS

\* orientation 1: at the left edge of the rectangle, except the top-left corner
BlocksI(inter, xi, xj) ==
    /\ inter.orientation = 1
    /\ xi > inter.interval_1[1] - EPS
    /\ xj < inter.interval_2[2] - EPS

\* BlocksJ that does not look at the orientation
BlocksJ_AnyOrientation(inter, xi, xj) ==
    /\ xi < inter.interval_1[2] - EPS
    /\ xj > inter.interval_2[1] - EPS

\* otherwise: at the bottom edge of the rectangle, except the bottom-right corner
BlocksJ(inter, xi, xj) ==
    /\ inter.orientation # 1
    /\ xi < inter.interval_1[2] - EPS
    /\ xj > inter.interval_2[1] - EPS

\* MaximalVelocity without the branch for the other orientation: drone j is
\* never held
MaximalVelocity_NoElse(xl, goal) ==
    [r \in 1..n_drones |->
        IF Abs(xl[r] - goal[r]) < EPS THEN 0
        ELSE IF \E j \in (r + 1)..n_drones : \E k \in 1..Len(Inters(r, j)) :
                    BlocksI(Inters(r, j)[k], xl[r], xl[j]) THEN 0
        ELSE MAX_VEL]

\* MaximalVelocity that takes a drone at EPS from its goal for finished
MaximalVelocity_GoalInclusive(xl, goal) ==
    [r \in 1..n_drones |->
        IF Abs(xl[r] - goal[r]) <= EPS THEN 0
        ELSE IF \E j \in (r + 1)..n_drones : \E k \in 1..Len(Inters(r, j)) :
                    BlocksI(Inters(r, j)[k], xl[r], xl[j]) THEN 0
        ELSE IF \E i \in 1..(r - 1) : \E k \in 1..Len(Inters(i, r)) :
                    BlocksJ(Inters(i, r)[k], xl[i], xl[r]) THEN 0
        ELSE MAX_VEL]

\* the velocity vector v, before the check that some drone moves
MaximalVelocity(xl, goal) ==
    [r \in 1..n_drones |->
        IF Abs(xl[r] - goal[r]) < EPS THEN 0
        ELSE IF \E j \in (r + 1)..n_drones : \E k \in 1..Len(Inters(r, j)) :
                    BlocksI(Inters(r, j)[k], xl[r], xl[j]) THEN 0
        ELSE IF \E i \in 1..(r - 1) : \E k \in 1..Len(Inters(i, r)) :
                    BlocksJ(Inters(i, r)[k], xl[i], xl[r]) THEN 0
        ELSE MAX_VEL]

\* AllStopped with the comparison turned round: the check never fires
AllStopped_Never(v) == \A r \in 1..n_drones : v[r] < 0

\* np.all(v < EPS): "No drones can move"
AllStopped(v) == \A r \in 1..n_drones : v[r] < EPS

----------------------------------------------------------------------------
\* Coordinator.__event_dt

\* GoalDt that leaves the goal times out of the minimum
GoalDt_Skipped(i, xl, goal, v, dt) == dt

\* the loop "time to reach the goals"
RECURSIVE GoalDt(_, _, _, _, _)
GoalDt(i, xl, goal, v, dt) ==
    IF i > n_drones THEN dt
    ELSE IF v[i] > EPS
         THEN GoalDt(i + 1, xl, goal, v, PyMin(dt, DivVel(goal[i] - xl[i], v[i])))
         ELSE GoalDt(i + 1, xl, goal, v, dt)

\* the tested edge: the left edge for orientation 1, the bottom edge otherwise
EdgeOf(inter) ==
    IF inter.orientation = 1
    THEN Seg(Pt(inter.interval_1[1], 0), Pt(inter.interval_1[1], inter.interval_2[2]))
    ELSE Seg(Pt(0, inter.interval_2[1]), Pt(inter.interval_1[2], inter.interval_2[1]))

\* InterDt whose ray branch takes the time to the opposite edge of the
\* rectangle instead of the tested edge
InterDt_OppositeEdge(inter, xi, xj, vi, vj, dt) ==
    LET pt == Pt(xi, xj)
        vec == Pt(vi, vj)
        seg == EdgeOf(inter)
    IN  IF SegContains(seg, pt)
        THEN IF ~(PointEq(seg.a, pt) \/ PointEq(seg.b, pt))
             THEN IF inter.orientation = 1
                  THEN PyMin(dt, DivVel(inter.interval_2[2] - pt.y, vj))
                  ELSE PyMin(dt, DivVel(inter.interval_1[2] - pt.x, vi))
             ELSE dt
        ELSE IF SegIntersectsRay(seg, pt, vec)
             THEN IF inter.orientation = 1
                  THEN PyMin(dt, DivVel(inter.interval_1[2] - pt.x, vi))
                  ELSE PyMin(dt, DivVel(inter.interval_2[2] - pt.y, vj))
             ELSE dt

\* the body of the innermost loop: dt after looking at one intersection
InterDt(inter, xi, xj, vi, vj, dt) ==
    LET pt == Pt(xi, xj)
        vec == Pt(vi, vj)
        seg == EdgeOf(inter)
    IN  IF SegContains(seg, pt)
        THEN IF ~(PointEq(seg.a, pt) \/ PointEq(seg.b, pt))
             THEN IF inter.orientation = 1
                  THEN PyMin(dt, DivVel(inter.interval_2[2] - pt.y, vj))
                  ELSE PyMin(dt, DivVel(inter.interval_1[2] - pt.x, vi))
             ELSE dt
        ELSE IF SegIntersectsRay(seg, pt, vec)
             THEN IF inter.orientation = 1
                  THEN PyMin(dt, DivVel(inter.interval_1[1] - pt.x, vi))
                  ELSE PyMin(dt, DivVel(inter.interval_2[1] - pt.y, vj))
             ELSE dt

\* the loops over i, j and the intersections of the pair
RECURSIVE PairsDt(_, _, _, _, _, _)
PairsDt(i, j, k, xl, v, dt) ==
    IF i > n_drones THEN dt
    ELSE IF j > n_drones THEN PairsDt(i + 1, 1, 1, xl, v, dt)
    ELSE IF j <= i THEN PairsDt(i, j + 1, 1, xl, v, dt)
    ELSE IF k > Len(Inters(i, j)) THEN PairsDt(i, j + 1, 1, xl, v, dt)
    ELSE PairsDt(i, j, k + 1, xl, v,
                 InterDt(Inters(i, j)[k], xl[i], xl[j], v[i], v[j], dt))

\* the time to the next event, before the check dt < EPS
EventDt(xl, goal, v) == PairsDt(1, 1, 1, xl, v, GoalDt(1, xl, goal, v, PINF))

\* NoProgress that only refuses a dt that is not positive
NoProgress_Zero(dt) == ~FLess(Fin(0), dt)

\* dt < EPS, with dt in ticks: "Next event is current event"
NoProgress(dt) == FLess(dt, Fin(EPS * MAX_VEL))

----------------------------------------------------------------------------
\* Coordinator.__to_paths

\* VelocityChanges that is always true: no event is merged away
VelocityChanges_Always(xs, ts, i) == TRUE

\* abs(vl - vr) > EPS at the interior event i, with the velocities
\* vl = dx / dt and vr = dx' / dt' compared without dividing
VelocityChanges(xs, ts, i) ==
    LET dxl == xs[i] - xs[i - 1]
        dtl == ts[i] - ts[i - 1]
        dxr == xs[i + 1] - xs[i]
        dtr == ts[i + 1] - ts[i]
    IN  Abs(dxl * MAX_VEL * dtr - dxr * MAX_VEL * dtl) > EPS * dtl * dtr

RECURSIVE MergeLoop(_, _, _, _)
MergeLoop(i, xs, ts, m) ==
    IF i > Len(xs) - 1 THEN m
    ELSE IF VelocityChanges(xs, ts, i)
         THEN MergeLoop(i + 1, xs, ts, [x |-> Append(m.x, xs[i]), t |-> Append(m.t, ts[i])])
         ELSE MergeLoop(i + 1, xs, ts, m)

\* merge_events
MergeEvents(xs, ts) ==
    LET m == MergeLoop(2, xs, ts, [x |-> <<xs[1]>>, t |-> <<ts[1]>>])
    IN  [x |-> Append(m.x, xs[Len(xs)]), t |-> Append(m.t, ts[Len(ts)])]

\* the while loop over the events i and the poses j
RECURSIVE WalkPath(_, _, _, _, _, _)
WalkPath(i, j, path, m, lengths, poses) ==
    IF ~(i <= Len(m.x) /\ j <= Len(poses)) THEN path
    ELSE IF lengths[j] + EPS < m.x[i]
         THEN \* time = merged_t[i-1] + (merged_t[i] - merged_t[i-1]) * factor
              LET num == lengths[j] - lengths[j - 1]
                  den == m.x[i] - lengths[j - 1]
                  time == <<m.t[i - 1] * den + (m.t[i] - m.t[i - 1]) * num, den>>
              IN  WalkPath(i, j + 1, AddPose(path, Frac(poses[j]), time), m, lengths, poses)
         ELSE IF m.x[i] < lengths[j] - EPS
              THEN \* p = poses[j-1] + (poses[j] - poses[j-1]) * factor
                   LET num == m.x[i] - lengths[j - 1]
                       den == lengths[j] - lengths[j - 1]
                       p == <<poses[j - 1] * den + (poses[j] - poses[j - 1]) * num, den>>
                   IN  WalkPath(i + 1, j, AddPose(path, p, Frac(m.t[i])), m, lengths, poses)
              ELSE WalkPath(i + 1, j + 1, AddPose(path, Frac(poses[j]), Frac(m.t[i])),
                            m, lengths, poses)

\* the timed Path of drone k
TimedPath(k, xx, tt, old_paths) ==
    LET drone_id == i_to_drone_id[k]
        poses == PathOf(old_paths, drone_id).poses
        lengths == GetLengths(poses)
        m == MergeEvents([e \in 1..Len(xx) |-> xx[e][k]], tt)
    IN  [id |-> drone_id,
         keyframes |-> WalkPath(2, 2, AddPose(<<>>, Frac(poses[1]), Frac(0)),
                                m, lengths, poses)]

ToPaths(xx, tt, old_paths) == [k \in 1..n_drones |-> TimedPath(k, xx, tt, old_paths)]

----------------------------------------------------------------------------
\* The calls the model makes: the mapping given to coordinate, and the
\* conflict table Delta(paths) finds for it.  Every interval lies within the
\* path of its drone.

\* poses of a path: 0 first, then strictly increasing coordinates up to MaxLen
PoseSeqs(counts) ==
    UNION {{s \in [1..m -> 0..MaxLen] :
                s[1] = 0 /\ \A k \in 1..(m - 1) : s[k] < s[k + 1]} : m \in counts}

Intervals(len, step) ==
    {<<a, b>> : a \in 0..len, b \in 0..len} \cap
        {iv \in (0..len) \X (0..len) : iv[1] < iv[2] /\ iv[1] % step = 0 /\ iv[2] % step = 0}

Intersections(len1, len2, step) ==
    [interval_1 : Intervals(len1, step), interval_2 : Intervals(len2, step),
     orientation : {1, -1}]

MkPaths(ids, poses) == [k \in 1..Len(ids) |-> [id |-> ids[k], poses |-> poses[k]]]

Last(s) == s[Len(s)]

TwoPoses == PoseSeqs({2})
AnyPoses == PoseSeqs({2, 3, 4})

\* the conflict tables with at most one intersection for a pair of paths
OneOrNone(q1, q2, step) ==
    {<<>>} \cup {<<c>> : c \in Intersections(Last(q1), Last(q2), step)}

Input(ids, poses, table) == [paths |-> MkPaths(ids, poses), table |-> table]

\* no drone or one drone
InputsFew ==
    {Input(<<>>, <<>>, <<>>)} \cup {Input(<<1>>, <<p>>, <<>>) : p \in PoseSeqs({1, 2, 3})}

\* a call with two drones
InputTwo(q1, q2, tab) == Input(<<1, 2>>, <<q1, q2>>, <<1, 2>> :> tab)

\* a call with three drones, the first two with the longest paths
InputThree(q3, tab12, tab13, tab23) ==
    Input(<<1, 2, 3>>, <<<<0, MaxLen>>, <<0, MaxLen>>, q3>>,
          (<<1, 2>> :> tab12) @@ (<<1, 3>> :> tab13) @@ (<<2, 3>> :> tab23))

----------------------------------------------------------------------------
\* Swarm.__init__ without drone_ids: no drone, paused, the lock free, no thread
\* started
InitSwarm ==
    /\ lock = "free"
    /\ tick = "off"
    /\ is_stopped = FALSE
    /\ drones = {}
    /\ paused = TRUE
    /\ goal_pose = 0
    /\ cmd = [kind |-> "none"]
    /\ seen = [kind |-> "none"]
    /\ caller = [pc |-> "out"]

----------------------------------------------------------------------------
\* VisualizationPublisher.__init__: the counter at 0, no call of visualize made
InitVisualization ==
    /\ counter = 0
    /\ vis_pc = "idle"
    /\ todo = <<>>
    /\ markers = <<>>
    /\ vis_error = "none"

----------------------------------------------------------------------------
\* Crazyflie.__init__: no method called, nothing sent
InitCrazyflie ==
    /\ cf_calls = <<>>
    /\ cf_todo = <<>>
    /\ cf_sent = <<>>

----------------------------------------------------------------------------
\* Coordinator.__init__

Init ==
    /\ pc = "idle"
    /\ paths = <<>>
    /\ n_drones = 0
    /\ i_to_drone_id = <<>>
    /\ delta = <<>>
    /\ self_x = <<>>
    /\ x_from = <<>>
    /\ x = <<>>
    /\ t = <<>>
    /\ x_goal = <<>>
    /\ result = [kind |-> "none", paths |-> <<>>]
    /\ error = "none"
    /\ calls = 0
    /\ ref = [kind |-> "none"]
    /\ InitSwarm
    /\ InitVisualization
    /\ InitCrazyflie

\* BuildDelta that keeps a conflict table built by an earlier call
BuildDelta_Stale(in) == IF DOMAIN delta = DOMAIN in.table THEN delta ELSE in.table

\* self.__delta = Delta(paths)
BuildDelta(in) == in.table

\* Coordinate that short-circuits only for an empty mapping
Coordinate_OnlyEmpty(in) ==
    /\ paths' = in.paths
    /\ n_drones' = Len(in.paths)
    /\ error' = "none"
    /\ calls' = calls + 1
    /\ UNCHANGED fleet_vars
    /\ IF Len(in.paths) < 1
       THEN /\ result' = [kind |-> "input", paths |-> in.paths]
            /\ pc' = "done"
            /\ UNCHANGED <<i_to_drone_id, delta, self_x, x_from, x, t, x_goal>>
       ELSE /\ i_to_drone_id' =
                    [k \in (DOMAIN i_to_drone_id) \cup (1..Len(in.paths)) |->
                        IF k <= Len(in.paths) THEN in.paths[k].id ELSE i_to_drone_id[k]]
            /\ delta' = BuildDelta(in)
            /\ x' = <<[k \in 1..Len(in.paths) |-> 0]>>
            /\ t' = <<0>>
            /\ x_goal' = [k \in 1..Len(in.paths) |-> PathLength(in.paths[k])]
            /\ pc' = "loop"
            /\ result' = [kind |-> "none", paths |-> <<>>]
            /\ UNCHANGED <<self_x, x_from>>

\* Coordinator.coordinate up to the loop: with at most one drone it returns
\* paths, with more it builds the conflict table and x, t and x_goal
Coordinate(in) ==
    /\ paths' = in.paths
    /\ n_drones' = Len(in.paths)
    /\ error' = "none"
    /\ calls' = calls + 1
    /\ UNCHANGED fleet_vars
    /\ IF Len(in.paths) <= 1
       THEN /\ result' = [kind |-> "input", paths |-> in.paths]
            /\ pc' = "done"
            /\ UNCHANGED <<i_to_drone_id, delta, self_x, x_from, x, t, x_goal>>
       ELSE /\ i_to_drone_id' =
                    [k \in (DOMAIN i_to_drone_id) \cup (1..Len(in.paths)) |->
                        IF k <= Len(in.paths) THEN in.paths[k].id ELSE i_to_drone_id[k]]
            /\ delta' = BuildDelta(in)
            /\ x' = <<[k \in 1..Len(in.paths) |-> 0]>>
            /\ t' = <<0>>
            /\ x_goal' = [k \in 1..Len(in.paths) |-> PathLength(in.paths[k])]
            /\ pc' = "loop"
            /\ result' = [kind |-> "none", paths |-> <<>>]
            /\ UNCHANGED <<self_x, x_from>>

\* LoopCondition with np.all: the loop ends when the first drone arrives
LoopCondition_All == \A k \in 1..n_drones : Abs(Last(x)[k] - x_goal[k]) > EPS

\* np.any(np.abs(x[-1] - x_goal) > EPS)
LoopCondition == \E k \in 1..n_drones : Abs(Last(x)[k] - x_goal[k]) > EPS

\* one iteration of the loop that raises "No drones can move"
RaiseDeadlock ==
    /\ pc = "loop"
    /\ LoopCondition
    /\ AllStopped(MaximalVelocity(Last(x), x_goal))
    /\ pc' = "failed"
    /\ error' = "deadlock"
    /\ UNCHANGED <<paths, n_drones, i_to_drone_id, delta, self_x, x_from, x, t, x_goal, result,
                   calls, ref, fleet_vars>>

\* one iteration of the loop that raises "Next event is current event"
RaiseNoProgress ==
    /\ pc = "loop"
    /\ LoopCondition
    /\ LET v == MaximalVelocity(Last(x), x_goal)
       IN  /\ ~AllStopped(v)
           /\ NoProgress(EventDt(Last(x), x_goal, v))
    /\ pc' = "failed"
    /\ error' = "no_progress"
    /\ UNCHANGED <<paths, n_drones, i_to_drone_id, delta, self_x, x_from, x, t, x_goal, result,
                   calls, ref, fleet_vars>>

\* NewPosition with the sign of the step wrong
NewPosition_Minus(xl, v, dt) == [k \in 1..n_drones |-> xl[k] - (v[k] * dt) \div MAX_VEL]

\* x[-1] + v * dt, with dt in ticks
NewPosition(xl, v, dt) == [k \in 1..n_drones |-> xl[k] + (v[k] * dt) \div MAX_VEL]

\* one iteration of the loop that appends an event
Advance ==
    /\ pc = "loop"
    /\ LoopCondition
    /\ LET v == MaximalVelocity(Last(x), x_goal)
           dt == EventDt(Last(x), x_goal, v)
       IN  /\ ~AllStopped(v)
           /\ ~NoProgress(dt)
           /\ dt[1] = 0
           /\ x' = Append(x, NewPosition(Last(x), v, dt[2]))
           /\ t' = Append(t, Last(t) + dt[2])
    /\ UNCHANGED <<pc, paths, n_drones, i_to_drone_id, delta, self_x, x_from, x_goal, result, error,
                   calls, ref, fleet_vars>>

\* Return that writes the timed Paths into the caller's mapping
Return_InPlace ==
    /\ pc = "loop"
    /\ ~LoopCondition
    /\ self_x' = x
    /\ x_from' = delta
    /\ result' = [kind |-> "input", paths |-> ToPaths(x, t, paths)]
    /\ paths' = [r \in 1..n_drones |->
                    [id |-> paths[r].id,
                     poses |-> [m \in 1..Len(ToPaths(x, t, paths)[r].keyframes) |->
                                    ToPaths(x, t, paths)[r].keyframes[m].pose[1]]]]
    /\ pc' = "done"
    /\ UNCHANGED <<n_drones, i_to_drone_id, delta, x, t, x_goal, error, calls, ref,
                   fleet_vars>>

\* the end of the loop: self.__x = x and return self.__to_paths(x, t, paths)
Return ==
    /\ pc = "loop"
    /\ ~LoopCondition
    /\ self_x' = x
    /\ x_from' = delta
    /\ result' = [kind |-> "timed", paths |-> ToPaths(x, t, paths)]
    /\ pc' = "done"
    /\ UNCHANGED <<paths, n_drones, i_to_drone_id, delta, x, t, x_goal, error, calls, ref,
                   fleet_vars>>

\* coordinate is called with no drone or one drone
CallFew == pc = "idle" /\ UNCHANGED ref /\ \E in \in InputsFew : Coordinate(in)

\* coordinate is called with two drones with straight paths and a conflict
\* table with at most one intersection
CallPair ==
    /\ pc = "idle"
    /\ UNCHANGED ref
    /\ \E q1 \in TwoPoses, q2 \in TwoPoses : \E tab \in OneOrNone(q1, q2, 1) :
            Coordinate(InputTwo(q1, q2, tab))

\* ... with two drones, one of them with up to two waypoints between its
\* ends, and at most one intersection with even interval ends
CallWaypoints ==
    /\ pc = "idle"
    /\ UNCHANGED ref
    /\ \E q \in (AnyPoses \X TwoPoses) \cup (TwoPoses \X AnyPoses) :
            \E tab \in OneOrNone(q[1], q[2], 2) : Coordinate(InputTwo(q[1], q[2], tab))

\* ... with two drones with the longest paths and two intersections with even
\* interval ends
CallTwoConflicts ==
    /\ pc = "idle"
    /\ UNCHANGED ref
    /\ \E c1 \in Intersections(MaxLen, MaxLen, 2), c2 \in Intersections(MaxLen, MaxLen, 2) :
            Coordinate(InputTwo(<<0, MaxLen>>, <<0, MaxLen>>, <<c1, c2>>))

\* ... with three drones, the third with a path of any length, and at most one
\* intersection per pair, with interval ends that are multiples of three
CallThree ==
    /\ pc = "idle"
    /\ UNCHANGED ref
    /\ \E q3 \in TwoPoses :
            \E tab12 \in OneOrNone(<<0, MaxLen>>, <<0, MaxLen>>, 3),
               tab13 \in OneOrNone(<<0, MaxLen>>, q3, 3),
               tab23 \in OneOrNone(<<0, MaxLen>>, q3, 3) :
                    Coordinate(InputThree(q3, tab12, tab13, tab23))

\* ... with three drones, the first two with up to two intersections with
\* interval ends that are multiples of three, the third free of conflicts
CallThreeFree ==
    /\ pc = "idle"
    /\ UNCHANGED ref
    /\ \E q3 \in TwoPoses :
            \E c1 \in Intersections(MaxLen, MaxLen, 3), c2 \in Intersections(MaxLen, MaxLen, 3) :
                    Coordinate(InputThree(q3, <<c1, c2>>, <<>>, <<>>))

Next ==
    \/ CallFew
    \/ CallPair
    \/ CallWaypoints
    \/ CallTwoConflicts
    \/ CallThree
    \/ CallThreeFree
    \/ RaiseDeadlock
    \/ RaiseNoProgress
    \/ Advance
    \/ Return

Spec == Init /\ [][Next]_vars

\* an iteration of the loop, or the return after it
LoopStep == RaiseDeadlock \/ RaiseNoProgress \/ Advance \/ Return

----------------------------------------------------------------------------
\* The trace of a call: the events x[k] at the times t[k] and the linear
\* motion between consecutive events.  An instant <<k, h>> is h half ticks
\* after event k; positions at instants are doubled to stay whole.

Returned == pc = "done" /\ result.kind = "timed"

Instants == {kh \in (1..(Len(x) - 1)) \X (0..(2 * MaxLen * MAX_VEL)) :
                kh[2] <= 2 * (t[kh[1] + 1] - t[kh[1]])}

Pos2(kh, r) ==
    2 * x[kh[1]][r] + ((x[kh[1] + 1][r] - x[kh[1]][r]) * kh[2]) \div (t[kh[1] + 1] - t[kh[1]])

Pairs == {ij \in (1..n_drones) \X (1..n_drones) : ij[1] < ij[2]}

\* the position p2 / 2 is strictly inside the interval from lo to hi
Inside2(p2, lo, hi) == 2 * lo < p2 /\ p2 < 2 * hi

\* C1 as stated: in a returned trace no two drones are at any instant both
\* strictly inside the two intervals of an intersection of their pair.
C1_SafetyStrict ==
    Returned =>
        \A ij \in Pairs : \A c \in 1..Len(Inters(ij[1], ij[2])) : \A kh \in Instants :
            LET inter == Inters(ij[1], ij[2])[c]
            IN  ~(/\ Inside2(Pos2(kh, ij[1]), inter.interval_1[1], inter.interval_1[2])
                  /\ Inside2(Pos2(kh, ij[2]), inter.interval_2[1], inter.interval_2[2]))

\* C1 (amended): at no instant of a trace are two drones jointly inside the
\* rectangle of an intersection, up to the tolerance at the far end of the
\* interval of the drone that goes first: for orientation 1 drone i is never
\* strictly inside interval_1 while drone j is strictly between the start of
\* interval_2 and its end minus EPS; otherwise drone j is never strictly inside
\* interval_2 while drone i is strictly between the start of interval_1 and
\* its end minus EPS.
C1_Safety ==
    pc # "idle" /\ n_drones > 1 =>
        \A ij \in Pairs : \A c \in 1..Len(Inters(ij[1], ij[2])) : \A kh \in Instants :
            LET inter == Inters(ij[1], ij[2])[c]
                hi1 == IF inter.orientation = 1 THEN inter.interval_1[2]
                       ELSE inter.interval_1[2] - EPS
                hi2 == IF inter.orientation = 1 THEN inter.interval_2[2] - EPS
                       ELSE inter.interval_2[2]
            IN  ~(/\ Inside2(Pos2(kh, ij[1]), inter.interval_1[1], hi1)
                  /\ Inside2(Pos2(kh, ij[2]), inter.interval_2[1], hi2))

\* a returned trace in which drone i waited at the left edge of an
\* orientation-1 rectangle while drone j was inside interval_2, and then
\* went through interval_1
C1_Witness ==
    /\ Returned
    /\ \E ij \in Pairs : \E c \in 1..Len(Inters(ij[1], ij[2])) : \E k \in 1..(Len(x) - 1) :
            LET inter == Inters(ij[1], ij[2])[c]
            IN  /\ inter.orientation = 1
                /\ x[k][ij[1]] = inter.interval_1[1]
                /\ x[k + 1][ij[1]] = inter.interval_1[1]
                /\ x[k][ij[2]] > inter.interval_2[1]
                /\ x[k][ij[2]] < inter.interval_2[2]
                /\ Last(x)[ij[1]] >= inter.interval_1[2]

----------------------------------------------------------------------------
\* C2: x[0] is all zeros and no drone ever moves backwards from one event to
\* the next.
C2_MonotoneProgress ==
    pc # "idle" /\ n_drones > 1 =>
        /\ \A r \in 1..n_drones : x[1][r] = 0
        /\ \A k \in 1..(Len(x) - 1) : \A r \in 1..n_drones : x[k][r] <= x[k + 1][r]

\* a returned trace in which a drone stood still over one step and advanced
\* over the next
C2_Witness ==
    /\ Returned
    /\ \E r \in 1..n_drones : \E k \in 1..(Len(x) - 2) :
            x[k][r] = x[k + 1][r] /\ x[k + 1][r] < x[k + 2][r]

\* C3: when coordinate returns for two or more drones, the last position
\* vector is within EPS of every path length.
C3_GoalReached ==
    Returned => \A r \in 1..n_drones : Abs(Last(x)[r] - PathLength(paths[r])) <= EPS

\* a returned trace of several steps that leaves a drone exactly EPS short
\* of its goal
C3_Witness ==
    /\ Returned
    /\ Len(x) > 2
    /\ \E r \in 1..n_drones : PathLength(paths[r]) - Last(x)[r] = EPS

RECURSIVE SumSeq(_)
SumSeq(s) == IF Len(s) = 0 THEN 0 ELSE s[1] + SumSeq(Tail(s))

\* the time to the next event computed at the last event
ComputedDt == EventDt(Last(x), x_goal, MaximalVelocity(Last(x), x_goal))

\* C4: the loop of coordinate ends after finitely many iterations, by the
\* return with every drone at its goal or by one of the two errors: every
\* iteration that does not end the loop moves the drones forward by at least
\* EPS * MAX_VEL in total, no drone is ever beyond its goal, an iteration that
\* raises no error has a finite dt to step by, and the loop ends in no other
\* way.
C4_Termination ==
    /\ [][pc = "loop" /\ pc' = "loop" =>
            SumSeq(Last(x')) >= SumSeq(Last(x)) + EPS * MAX_VEL]_vars
    /\ [](pc = "loop" => \A r \in 1..n_drones : Last(x)[r] <= x_goal[r])
    /\ [](pc = "loop" /\ LoopCondition /\ ~AllStopped(MaximalVelocity(Last(x), x_goal))
            => ComputedDt[1] = 0)
    /\ [](pc = "done" /\ n_drones > 1 => Returned /\ ~LoopCondition)
    /\ [](pc = "failed" => error \in {"deadlock", "no_progress"})

\* the loop has ended after more iterations than there are drones
C4_Witness == pc \in {"done", "failed"} /\ n_drones > 1 /\ Len(x) > n_drones + 2

\* drone r is finished or held by an intersection at the last event
Finished(r) == Abs(Last(x)[r] - x_goal[r]) < EPS

Held(r) ==
    \/ \E j \in (r + 1)..n_drones : \E k \in 1..Len(Inters(r, j)) :
            BlocksI(Inters(r, j)[k], Last(x)[r], Last(x)[j])
    \/ \E i \in 1..(r - 1) : \E k \in 1..Len(Inters(i, r)) :
            BlocksJ(Inters(i, r)[k], Last(x)[i], Last(x)[r])

TotalDeadlock ==
    /\ pc = "loop"
    /\ \E r \in 1..n_drones : Abs(Last(x)[r] - PathLength(paths[r])) > EPS
    /\ \A r \in 1..n_drones : Finished(r) \/ Held(r)

\* C5: at an event where every drone is finished or held while some drone has
\* not reached its goal, coordinate raises the deadlock error and returns
\* nothing.
C5_DeadlockRaised ==
    [][TotalDeadlock => pc' = "failed" /\ error' = "deadlock" /\ result' = result]_vars

\* a partial deadlock that was reported: two drones hold each other, and the
\* error came once the third drone had finished
C5_Witness ==
    /\ pc = "failed"
    /\ error = "deadlock"
    /\ n_drones = 3
    /\ Len(x) > 1
    /\ Finished(3)
    /\ ~Finished(1)
    /\ ~Finished(2)

\* the steps of the trace are longer than EPS / at least EPS (in ticks)
StepsAbove(eps) == \A k \in 1..(Len(t) - 1) : t[k + 1] - t[k] > eps
StepsAtLeast(eps) == \A k \in 1..(Len(t) - 1) : t[k + 1] - t[k] >= eps

\* C6 as stated: every appended step satisfies t[k+1] - t[k] > EPS.
C6_StepsAboveEps == StepsAbove(EPS * MAX_VEL)

\* C6 (amended): whenever the computed time to the next event is smaller than
\* EPS, coordinate raises the zero-progress error instead of appending a step,
\* so every appended step satisfies t[k+1] - t[k] >= EPS; a dt equal to EPS
\* is accepted.
C6_ZeroProgress ==
    /\ []StepsAtLeast(EPS * MAX_VEL)
    /\ [][(/\ pc = "loop"
           /\ LoopCondition
           /\ \E r \in 1..n_drones : ~Finished(r) /\ ~Held(r)
           /\ FLess(ComputedDt, Fin(EPS * MAX_VEL)))
          => pc' = "failed" /\ error' = "no_progress" /\ x' = x /\ t' = t]_vars

\* a call that appended a step of exactly EPS and later raised the
\* zero-progress error
C6_Witness ==
    /\ pc = "failed"
    /\ error = "no_progress"
    /\ \E k \in 1..(Len(t) - 1) : t[k + 1] - t[k] = EPS * MAX_VEL

----------------------------------------------------------------------------
\* C7: for a mapping with no drone or one drone, coordinate returns the mapping
\* it was given, builds no conflict table and no trace, and raises no error.
C7_Identity ==
    [][pc = "idle" /\ pc' # "idle" /\ Len(paths') <= 1 =>
            /\ pc' = "done"
            /\ result' = [kind |-> "input", paths |-> paths']
            /\ error' = "none"
            /\ UNCHANGED <<delta, self_x, x, t>>]_vars

\* coordinate has returned the mapping of a single drone with a path of
\* several poses
C7_Witness ==
    /\ pc = "done"
    /\ result.kind = "input"
    /\ Len(paths) = 1
    /\ Len(paths[1].poses) > 2

----------------------------------------------------------------------------
\* The timed Paths against the trace

Keyframes(r) == result.paths[r].keyframes

\* the keyframe kf of drone r lies on the trace of drone r: at its time the
\* piecewise-linear trace is within EPS of its arclength (its pose, on a
\* straight path from 0)
OnTrace(r, kf) ==
    \/ /\ kf.time[1] >= Last(t) * kf.time[2]
       /\ Abs(Last(x)[r] * kf.pose[2] - kf.pose[1]) <= EPS * kf.pose[2]
    \/ \E k \in 1..(Len(t) - 1) :
            LET d == kf.time[2]
                dT == t[k + 1] - t[k]
                pd == kf.pose[2]
            IN  /\ t[k] * d <= kf.time[1]
                /\ kf.time[1] <= t[k + 1] * d
                /\ Abs(x[k][r] * d * dT * pd
                       + (x[k + 1][r] - x[k][r]) * (kf.time[1] - t[k] * d) * pd
                       - kf.pose[1] * d * dT) <= EPS * d * dT * pd

\* C8: every keyframe of a returned timed Path carries a time at which the
\* trace of its drone is at the keyframe's arclength (within EPS).
C8_FaithfulRetiming ==
    Returned => \A r \in 1..n_drones : \A m \in 1..Len(Keyframes(r)) :
                    OnTrace(r, Keyframes(r)[m])

\* C9: every returned timed Path starts with the first pose at time 0, and
\* its keyframes never go back in time or in arclength.
C9_PathOrdering ==
    Returned => \A r \in 1..n_drones :
        LET kfs == Keyframes(r)
        IN  /\ FracEq(kfs[1].pose, Frac(paths[r].poses[1]))
            /\ FracEq(kfs[1].time, Frac(0))
            /\ \A m \in 1..(Len(kfs) - 1) :
                    /\ FracLeq(kfs[m].time, kfs[m + 1].time)
                    /\ FracLeq(kfs[m].pose, kfs[m + 1].pose)

\* the keyframe is one of the poses of the path
IsWaypoint(kf, poses) == \E j \in 1..Len(poses) : FracEq(kf.pose, Frac(poses[j]))

\* C10: a returned timed Path holds every pose of the input path, in order,
\* with the same first and final pose, and every other keyframe lies strictly
\* between two of them.
C10_WaypointsPreserved ==
    Returned => \A r \in 1..n_drones :
        LET kfs == Keyframes(r)
            poses == paths[r].poses
            kept == SelectSeq(kfs, LAMBDA kf : IsWaypoint(kf, poses))
        IN  /\ Len(kept) = Len(poses)
            /\ \A j \in 1..Len(poses) : FracEq(kept[j].pose, Frac(poses[j]))
            /\ FracEq(kfs[1].pose, Frac(poses[1]))
            /\ FracEq(Last(kfs).pose, Frac(Last(poses)))

----------------------------------------------------------------------------
\* the conflict table holds no intersection for any pair
NoConflicts == \A ij \in Pairs : Len(Inters(ij[1], ij[2])) = 0

\* C11: without any intersection every drone has velocity MAX_VEL at every
\* event until it is at its goal, and in the returned timed Path every
\* keyframe that is a waypoint at arclength s has the time s / MAX_VEL (s
\* ticks), within the tolerance EPS / MAX_VEL.
C11_NoConflict ==
    Returned /\ NoConflicts =>
        /\ \A k \in 1..Len(x) : \A r \in 1..n_drones :
                Abs(x[k][r] - x_goal[r]) >= EPS
                    => MaximalVelocity(x[k], x_goal)[r] = MAX_VEL
        /\ \A r \in 1..n_drones : \A m \in 1..Len(Keyframes(r)) :
                LET kf == Keyframes(r)[m]
                IN  IsWaypoint(kf, paths[r].poses) =>
                        /\ kf.time[1] * kf.pose[2] - kf.pose[1] * kf.time[2]
                                <= EPS * kf.time[2] * kf.pose[2]
                        /\ kf.pose[1] * kf.time[2] - kf.time[1] * kf.pose[2]
                                <= EPS * kf.time[2] * kf.pose[2]

----------------------------------------------------------------------------
\* a call for two drones A = 1 and B = 2 with a single intersection, of
\* orientation 1
YieldCase ==
    /\ pc # "idle"
    /\ n_drones = 2
    /\ Len(Inters(1, 2)) = 1
    /\ Inters(1, 2)[1].orientation = 1

\* the velocity of drone r at event k
VelAt(k, r) == MaximalVelocity(x[k], x_goal)[r]

\* C12: with a single intersection of orientation 1, A has velocity MAX_VEL
\* before the start of interval_1, is held there while B is before the end of
\* interval_2 (up to EPS), is never held once B has reached that end, and the
\* dwell ends at the event where B reaches that end: B is not beyond it at
\* the next event.  B has velocity MAX_VEL at every event until its goal.
C12_YieldAndRelease ==
    YieldCase =>
        LET inter == Inters(1, 2)[1]
            a1 == inter.interval_1[1]
            b2 == inter.interval_2[2]
        IN  \A k \in 1..Len(x) :
                /\ Abs(x[k][2] - x_goal[2]) >= EPS => VelAt(k, 2) = MAX_VEL
                /\ x[k][1] <= a1 - EPS => VelAt(k, 1) = MAX_VEL
                /\ x[k][1] = a1 /\ x[k][2] < b2 - EPS => VelAt(k, 1) = 0
                /\ VelAt(k, 1) = 0 /\ Abs(x[k][1] - x_goal[1]) >= EPS =>
                        /\ x[k][1] = a1
                        /\ x[k][2] < b2
                        /\ k < Len(x) => x[k + 1][2] <= b2 + EPS

----------------------------------------------------------------------------
\* a call for two drones whose only intersection has both intervals starting
\* at 0
StartConflict ==
    /\ pc # "idle"
    /\ n_drones = 2
    /\ Len(Inters(1, 2)) = 1
    /\ Inters(1, 2)[1].interval_1[1] = 0
    /\ Inters(1, 2)[1].interval_2[1] = 0

----------------------------------------------------------------------------
\* C14: no step of coordinate changes the caller's mapping or a Path in it,
\* whether the call returns or raises one of the two errors, and what is
\* returned for two or more drones are the new Paths made by __to_paths, not
\* the caller's.
C14_Frame ==
    /\ [][pc # "idle" => paths' = paths]_vars
    /\ [](pc = "done" /\ n_drones > 1 =>
            /\ result.kind = "timed"
            /\ \A r \in 1..n_drones :
                    /\ result.paths[r].id = paths[r].id
                    /\ result.paths[r] # paths[r])

\* a call for a path with waypoints that returned a timed Path with more
\* keyframes than the path has poses
C14_Witness ==
    /\ Returned
    /\ \E r \in 1..n_drones :
            Len(paths[r].poses) > 2 /\ Len(Keyframes(r)) > Len(paths[r].poses)

----------------------------------------------------------------------------
\* Two Coordinators and one input: a fresh Coordinator is called with the
\* input; then a second Coordinator is made, is called with other inputs, and
\* is called with the input at last.

\* the most calls the second Coordinator gets before the input
MaxHistory == 2

\* the intersection with both intervals from 0 to 2
Corner(o) == [interval_1 |-> <<0, 2>>, interval_2 |-> <<0, 2>>, orientation |-> o]

\* the earlier calls: three drones with other ids of which two hold each other
\* (the call fails), three drones without conflicts, two drones with the same
\* ids and another conflict table, the two ids the other way round, one drone
Histories ==
    {Input(<<7, 8, 9>>, <<<<0, 4>>, <<0, 4>>, <<0, 2>>>>,
           (<<7, 8>> :> <<Corner(1), Corner(-1)>>) @@ (<<7, 9>> :> <<>>) @@ (<<8, 9>> :> <<>>)),
     Input(<<3, 1, 2>>, <<<<0, 3>>, <<0, 2>>, <<0, 4>>>>,
           (<<3, 1>> :> <<>>) @@ (<<3, 2>> :> <<>>) @@ (<<1, 2>> :> <<>>)),
     Input(<<1, 2>>, <<<<0, 4>>, <<0, 4>>>>, <<1, 2>> :> <<Corner(1)>>),
     Input(<<2, 1>>, <<<<0, 4>>, <<0, 2>>>>, <<2, 1>> :> <<Corner(-1)>>),
     Input(<<5>>, <<<<0, 3>>>>, <<>>)}

\* the straight paths of the two longest lengths
LongPoses == {q \in TwoPoses : Last(q) >= MaxLen - 1}

\* the fresh Coordinator is called with two drones and at most one intersection
FirstCallPair ==
    /\ pc = "idle"
    /\ ref.kind = "none"
    /\ UNCHANGED ref
    /\ \E q1 \in LongPoses, q2 \in LongPoses : \E tab \in OneOrNone(q1, q2, 2) :
            Coordinate(InputTwo(q1, q2, tab))

\* ... with two drones and two intersections
FirstCallTwoConflicts ==
    /\ pc = "idle"
    /\ ref.kind = "none"
    /\ UNCHANGED ref
    /\ \E c1 \in Intersections(MaxLen, MaxLen, 3), c2 \in Intersections(MaxLen, MaxLen, 3) :
            Coordinate(InputTwo(<<0, MaxLen>>, <<0, MaxLen>>, <<c1, c2>>))

\* the outcome of the first call is kept, and Coordinator() makes the second
\* Coordinator
NewInstance ==
    /\ pc \in {"done", "failed"}
    /\ ref.kind = "none"
    /\ ref' = [kind |-> "outcome", paths |-> paths, table |-> delta,
               pc |-> pc, result |-> result, error |-> error]
    /\ pc' = "idle"
    /\ paths' = <<>>
    /\ n_drones' = 0
    /\ i_to_drone_id' = <<>>
    /\ delta' = <<>>
    /\ self_x' = <<>>
    /\ x_from' = <<>>
    /\ x' = <<>>
    /\ t' = <<>>
    /\ x_goal' = <<>>
    /\ result' = [kind |-> "none", paths |-> <<>>]
    /\ error' = "none"
    /\ calls' = 0
    /\ UNCHANGED fleet_vars

\* an earlier call on the second Coordinator
HistoryCall ==
    /\ pc \in {"idle", "done", "failed"}
    /\ ref.kind = "outcome"
    /\ calls < MaxHistory
    /\ UNCHANGED ref
    /\ \E h \in Histories : Coordinate(h)

\* the second Coordinator is called with the input of the first
SameCall ==
    /\ pc \in {"done", "failed"}
    /\ ref.kind = "outcome"
    /\ ref' = [ref EXCEPT !.kind = "compare"]
    /\ Coordinate([paths |-> ref.paths, table |-> ref.table])

NextHist ==
    \/ FirstCallPair
    \/ FirstCallTwoConflicts
    \/ NewInstance
    \/ HistoryCall
    \/ SameCall
    \/ RaiseDeadlock
    \/ RaiseNoProgress
    \/ Advance
    \/ Return

SpecHist == Init /\ [][NextHist]_vars

\* C15: what coordinate gives for an input (the timed Paths it returns or the
\* error it raises) is the same on a Coordinator that had earlier calls, with
\* more drones, with other ids or failing, as on a fresh Coordinator.
C15_HistoryIndependence ==
    ref.kind = "compare" /\ pc \in {"done", "failed"} =>
        /\ pc = ref.pc
        /\ result = ref.result
        /\ error = ref.error

\* the input has returned timed Paths after a wait on a Coordinator that still
\* holds the id of a third drone of an earlier call
C15_Witness ==
    /\ ref.kind = "compare"
    /\ Returned
    /\ Len(x) > 2
    /\ Len(i_to_drone_id) = 3
    /\ \E r \in 1..2 : x[2][r] = x[1][r]

----------------------------------------------------------------------------
\* the positions of drone r at the events of the trace
TraceOf(r) == [e \in 1..Len(x) |-> x[e][r]]

\* the events of a trace that the merge is to keep: the first, the last, and
\* the interior ones where the velocity changes by more than EPS
KeptEvents(xs, ts) ==
    {1, Len(xs)} \cup
        {i \in 2..(Len(xs) - 1) :
            LET dtl == ts[i] - ts[i - 1]
                dtr == ts[i + 1] - ts[i]
            IN  Abs((xs[i] - xs[i - 1]) * dtr - (xs[i + 1] - xs[i]) * dtl) * MAX_VEL
                    > EPS * dtl * dtr}

\* the events of the set K, in order
RECURSIVE Pick(_, _, _)
Pick(s, K, i) ==
    IF i > Len(s) THEN <<>>
    ELSE IF i \in K THEN <<s[i]>> \o Pick(s, K, i + 1)
    ELSE Pick(s, K, i + 1)

\* C16 as stated: merging a merged trace changes nothing, and the merge of a
\* trace is the trace without the interior events where the velocity changes
\* by at most EPS.
C16_MergeIdempotent ==
    Returned => \A r \in 1..n_drones :
        LET m == MergeEvents(TraceOf(r), t)
            K == KeptEvents(TraceOf(r), t)
        IN  /\ MergeEvents(m.x, m.t) = m
            /\ m.x = Pick(TraceOf(r), K, 1)
            /\ m.t = Pick(t, K, 1)

\* C16 (amended): merging a merged trace changes nothing; the merge of a trace
\* of two or more events is the trace without the interior events where the
\* velocity changes by at most EPS, first and last event kept; the merge of a
\* trace of a single event holds that event twice.
C16_Merge ==
    Returned => \A r \in 1..n_drones :
        LET m == MergeEvents(TraceOf(r), t)
            K == KeptEvents(TraceOf(r), t)
        IN  /\ MergeEvents(m.x, m.t) = m
            /\ Len(x) > 1 => m.x = Pick(TraceOf(r), K, 1) /\ m.t = Pick(t, K, 1)
            /\ Len(x) = 1 => m.x = <<x[1][r], x[1][r]>> /\ m.t = <<t[1], t[1]>>

\* a returned trace of which the merge for some drone drops an interior event
\* and keeps another
C16_Witness ==
    /\ Returned
    /\ \E r \in 1..n_drones :
            LET m == MergeEvents(TraceOf(r), t)
            IN  Len(m.x) < Len(x) /\ Len(m.x) > 2

----------------------------------------------------------------------------
\* Coordinator.coordinate_stub, called before or between calls of coordinate

\* the mappings given to coordinate_stub: none to three drones
StubInputs ==
    {<<>>,
     MkPaths(<<1>>, <<<<0, 2, 3>>>>),
     MkPaths(<<1, 2>>, <<<<0, MaxLen>>, <<0, MaxLen>>>>),
     MkPaths(<<2, 1>>, <<<<0, 1>>, <<0, 2, 4>>>>),
     MkPaths(<<7, 8, 9>>, <<<<0, 4>>, <<0, 4>>, <<0, 2>>>>)}

\* coordinate_stub that does what coordinate does
CoordinateStub_Coordinates(ps) ==
    /\ Coordinate([paths |-> ps, table |-> [ij \in {} |-> <<>>]])
    /\ UNCHANGED ref

\* return paths
CoordinateStub(ps) ==
    /\ paths' = ps
    /\ result' = [kind |-> "input", paths |-> ps]
    /\ UNCHANGED <<pc, n_drones, i_to_drone_id, delta, self_x, x_from, x, t, x_goal, error,
                   calls, ref, fleet_vars>>

CallStub ==
    /\ pc \in {"idle", "done", "failed"}
    /\ \E ps \in StubInputs : CoordinateStub(ps)

NextStub ==
    \/ CallPair
    \/ CallTwoConflicts
    \/ RaiseDeadlock
    \/ RaiseNoProgress
    \/ Advance
    \/ Return
    \/ CallStub

SpecStub == Init /\ [][NextStub]_vars

\* C17: coordinate_stub returns the mapping it was given, for every mapping,
\* and changes nothing of the Coordinator: a step taken between two calls of
\* coordinate, or before the first without starting it, leaves every field and
\* the trace as they are and returns the caller's mapping.
C17_StubIdentity ==
    [][(pc \in {"done", "failed"} \/ (pc = "idle" /\ calls' = calls)) =>
            (/\ result' = [kind |-> "input", paths |-> paths']
             /\ UNCHANGED <<pc, n_drones, i_to_drone_id, delta, self_x, x_from, x, t, x_goal>>
             /\ UNCHANGED <<error, calls>>)]_vars

\* coordinate_stub has returned the two paths for which coordinate had raised
\* the deadlock error just before
C17_Witness ==
    /\ pc = "failed"
    /\ error = "deadlock"
    /\ result.kind = "input"
    /\ Len(result.paths) = 2
    /\ result.paths = paths
    /\ x_goal = [k \in 1..2 |-> PathLength(paths[k])]
    /\ Len(Inters(1, 2)) > 0

----------------------------------------------------------------------------
\* Swarm: the pipeline thread of run_thread and a thread that calls the other
\* methods.  Perception, DecisionMaking and VisualizationPublisher are kept to
\* what they read and write of the fleet state under the lock.

DroneIds == {1, 2}
GoalPoses == {1, 2}

\* the fleet state the lock guards
FleetState == [drones |-> drones, paused |-> paused, goal_pose |-> goal_pose, cmd |-> cmd]

\* the calls of the methods of Swarm; drone 0 stands for every drone
SwarmCalls ==
    {[op |-> "stop_thread"], [op |-> "pause"]}
    \cup {[op |-> "unpause", pose |-> p] : p \in GoalPoses}
    \cup {[op |-> "shutdown_drone", drone |-> d] : d \in DroneIds \cup {0}}
    \cup {[op |-> "goto_drone", drone |-> d, pose |-> p] : d \in DroneIds, p \in GoalPoses}
    \cup {[op |-> "add_drone", drone |-> d] : d \in DroneIds}
    \cup {[op |-> "remove_drone", drone |-> d] : d \in DroneIds \cup {0}}

\* run_thread: the thread is started
RunThread ==
    /\ tick = "off"
    /\ tick' = "top"
    /\ UNCHANGED <<lock, is_stopped, drones, paused, goal_pose, cmd, seen, caller, beside_swarm>>

\* while not rospy.is_shutdown() and not self.__is_stopped; cur_t = time.time()
TickTop ==
    /\ tick = "top"
    /\ \E is_shutdown \in BOOLEAN :
            tick' = IF is_shutdown \/ is_stopped THEN "ended" ELSE "acquire"
    /\ UNCHANGED <<lock, is_stopped, drones, paused, goal_pose, cmd, seen, caller, beside_swarm>>

\* TickAcquire that does not wait for the lock
TickAcquire_NoLock ==
    /\ tick = "acquire"
    /\ lock' = "pipeline"
    /\ tick' = "perceive"
    /\ seen' = [kind |-> "none"]
    /\ UNCHANGED <<is_stopped, drones, paused, goal_pose, cmd, caller, beside_swarm>>

\* with self.__lock: entered
TickAcquire ==
    /\ tick = "acquire"
    /\ lock = "free"
    /\ lock' = "pipeline"
    /\ tick' = "perceive"
    /\ seen' = [kind |-> "none"]
    /\ UNCHANGED <<is_stopped, drones, paused, goal_pose, cmd, caller, beside_swarm>>

\* obstacle_collection = self.__perception.perceive()
TickPerceive ==
    /\ tick = "perceive"
    /\ seen' = [kind |-> "tick", perceive |-> FleetState, decide |-> FleetState,
                visualize |-> FleetState]
    /\ tick' = "decide"
    /\ UNCHANGED <<lock, is_stopped, drones, paused, goal_pose, cmd, caller, beside_swarm>>

\* self.__decision_making.decide(obstacle_collection), returning or raising (an
\* error of coordinate): the with statement frees the lock and the thread ends
TickDecide ==
    /\ tick = "decide"
    /\ \E raises \in BOOLEAN :
            IF raises
            THEN lock' = "free" /\ tick' = "ended" /\ seen' = [kind |-> "none"]
            ELSE /\ lock' = lock
                 /\ tick' = "visualize"
                 /\ seen' = [seen EXCEPT !.decide = FleetState, !.visualize = FleetState]
    /\ UNCHANGED <<is_stopped, drones, paused, goal_pose, cmd, caller, beside_swarm>>

\* self.__visualization_publisher.visualize()
TickVisualize ==
    /\ tick = "visualize"
    /\ seen' = [seen EXCEPT !.visualize = FleetState]
    /\ tick' = "exit"
    /\ UNCHANGED <<lock, is_stopped, drones, paused, goal_pose, cmd, caller, beside_swarm>>

\* the end of the with statement
TickRelease ==
    /\ tick = "exit"
    /\ lock' = "free"
    /\ tick' = "sleep"
    /\ seen' = [kind |-> "none"]
    /\ UNCHANGED <<is_stopped, drones, paused, goal_pose, cmd, caller, beside_swarm>>

\* time.sleep(t_remaining)
TickSleep ==
    /\ tick = "sleep"
    /\ tick' = "top"
    /\ UNCHANGED <<lock, is_stopped, drones, paused, goal_pose, cmd, seen, caller, beside_swarm>>

\* another thread calls a method of Swarm
CallerCall ==
    /\ caller.pc = "out"
    /\ \E c \in SwarmCalls : caller' = [pc |-> "acquire", call |-> c]
    /\ UNCHANGED <<lock, tick, is_stopped, drones, paused, goal_pose, cmd, seen, beside_swarm>>

\* with self.__lock: entered by the caller
CallerAcquire ==
    /\ caller.pc = "acquire"
    /\ lock = "free"
    /\ lock' = "caller"
    /\ caller' = [caller EXCEPT !.pc = "body"]
    /\ UNCHANGED <<tick, is_stopped, drones, paused, goal_pose, cmd, seen, beside_swarm>>

\* the body of the method under the lock; del of a missing key raises and
\* changes nothing
CallerBody ==
    /\ caller.pc = "body"
    /\ LET c == caller.call
       IN  /\ is_stopped' = IF c.op = "stop_thread" THEN TRUE ELSE is_stopped
           /\ paused' = IF c.op = "pause" THEN TRUE
                        ELSE IF c.op = "unpause" THEN FALSE ELSE paused
           /\ goal_pose' = IF c.op = "unpause" THEN c.pose ELSE goal_pose
           /\ cmd' = IF c.op = "shutdown_drone" THEN [kind |-> "stop", drone |-> c.drone]
                     ELSE IF c.op = "goto_drone"
                          THEN [kind |-> "goto", drone |-> c.drone, pose |-> c.pose]
                          ELSE cmd
           /\ drones' = IF c.op = "add_drone" THEN drones \cup {c.drone}
                        ELSE IF c.op = "remove_drone"
                             THEN IF c.drone = 0 THEN {} ELSE drones \ {c.drone}
                             ELSE drones
    /\ caller' = [caller EXCEPT !.pc = "exit"]
    /\ UNCHANGED <<lock, tick, seen, beside_swarm>>

\* the end of the with statement of the method
CallerRelease ==
    /\ caller.pc = "exit"
    /\ lock' = "free"
    /\ caller' = [pc |-> "out"]
    /\ UNCHANGED <<tick, is_stopped, drones, paused, goal_pose, cmd, seen, beside_swarm>>

NextSwarm ==
    \/ RunThread
    \/ TickTop
    \/ TickAcquire
    \/ TickPerceive
    \/ TickDecide
    \/ TickVisualize
    \/ TickRelease
    \/ TickSleep
    \/ CallerCall
    \/ CallerAcquire
    \/ CallerBody
    \/ CallerRelease

SpecSwarm == Init /\ [][NextSwarm]_vars

\* the pipeline thread is inside the with statement of a tick
InTick == tick \in {"perceive", "decide", "visualize", "exit"}

\* C18: the three steps of a tick run under the lock: while the pipeline
\* thread is between taking and freeing the lock no step changes the fleet
\* state, the caller is not inside a method body, and decide and visualize
\* read the fleet state perceive has read; a call takes effect wholly before
\* or wholly after a tick.
C18_TickAtomic ==
    /\ [][InTick => FleetState' = FleetState /\ is_stopped' = is_stopped]_vars
    /\ [](InTick => lock = "pipeline" /\ caller.pc \notin {"body", "exit"})
    /\ [](caller.pc \in {"body", "exit"} => lock = "caller")
    /\ [](InTick /\ seen.kind = "tick" =>
            seen.decide = seen.perceive /\ seen.visualize = seen.perceive)

\* a call of add_drone waits for the lock while the tick, which has read a
\* fleet already changed by earlier calls, is about to visualize
C18_Witness ==
    /\ tick = "visualize"
    /\ caller.pc = "acquire"
    /\ caller.call.op = "add_drone"
    /\ caller.call.drone \notin drones
    /\ drones # {}
    /\ ~paused
    /\ seen.kind = "tick"
    /\ seen.perceive.drones = drones

----------------------------------------------------------------------------
\* the three reasons of the rule for velocity 0, for drone r at the positions xl

\* (a) r is closer than EPS to its goal
AtGoal(r, xl) == Abs(xl[r] - x_goal[r]) < EPS

\* (b) r is the first drone of a pair with an intersection of orientation 1,
\* past the start of interval_1 less EPS, the other before the end of
\* interval_2 less EPS
YieldsAsFirst(r, xl) ==
    \E ij \in Pairs : \E c \in 1..Len(Inters(ij[1], ij[2])) :
        LET inter == Inters(ij[1], ij[2])[c]
        IN  /\ ij[1] = r
            /\ inter.orientation = 1
            /\ xl[ij[1]] > inter.interval_1[1] - EPS
            /\ xl[ij[2]] < inter.interval_2[2] - EPS

\* (c) r is the second drone of a pair with an intersection of another
\* orientation, past the start of interval_2 less EPS, the other before the
\* end of interval_1 less EPS
YieldsAsSecond(r, xl) ==
    \E ij \in Pairs : \E c \in 1..Len(Inters(ij[1], ij[2])) :
        LET inter == Inters(ij[1], ij[2])[c]
        IN  /\ ij[2] = r
            /\ inter.orientation # 1
            /\ xl[ij[1]] < inter.interval_1[2] - EPS
            /\ xl[ij[2]] > inter.interval_2[1] - EPS

\* the events at which __maximal_velocity has returned a velocity vector
VelocityEvents ==
    {k \in 1..Len(x) : k < Len(x) \/ (pc = "failed" /\ error = "no_progress")}

\* r is within EPS of its goal, EPS included
WithinEps(r, xl) == Abs(xl[r] - x_goal[r]) <= EPS

\* C19 as stated, with a drone exactly EPS from its goal counted as within EPS
\* of it: at every event each drone gets MAX_VEL or 0, and 0 exactly if it is
\* within EPS of its goal or yields as first or as second drone of an
\* intersection.
C19_VelocityRuleInclusive ==
    pc # "idle" /\ n_drones > 1 =>
        \A k \in VelocityEvents : \A r \in 1..n_drones :
            /\ VelAt(k, r) \in {0, MAX_VEL}
            /\ VelAt(k, r) = 0 <=>
                    WithinEps(r, x[k]) \/ YieldsAsFirst(r, x[k]) \/ YieldsAsSecond(r, x[k])

\* C19 (amended): at every event __maximal_velocity gives each drone MAX_VEL or
\* 0, and 0 exactly to the drones that are closer than EPS to their goal (a
\* drone exactly EPS from its goal still gets MAX_VEL), or yield as
\* first drone of an intersection of orientation 1, or yield as second drone
\* of an intersection of another orientation; no intersection makes both
\* drones of its pair yield.
C19_VelocityRule ==
    pc # "idle" /\ n_drones > 1 =>
        \A k \in VelocityEvents :
            /\ \A r \in 1..n_drones :
                    /\ VelAt(k, r) \in {0, MAX_VEL}
                    /\ VelAt(k, r) = 0 <=>
                            AtGoal(r, x[k]) \/ YieldsAsFirst(r, x[k]) \/ YieldsAsSecond(r, x[k])
            /\ \A ij \in Pairs : \A c \in 1..Len(Inters(ij[1], ij[2])) :
                    LET inter == Inters(ij[1], ij[2])[c]
                    IN  ~(/\ inter.orientation = 1
                          /\ x[k][ij[1]] > inter.interval_1[1] - EPS
                          /\ x[k][ij[2]] < inter.interval_2[2] - EPS
                          /\ inter.orientation # 1
                          /\ x[k][ij[1]] < inter.interval_1[2] - EPS
                          /\ x[k][ij[2]] > inter.interval_2[1] - EPS)

\* an event of three drones at which one yields as first drone, one as second
\* drone, and one moves
C19_Witness ==
    /\ pc = "loop"
    /\ n_drones = 3
    /\ Len(x) > 2
    /\ \E a, b, c \in 1..3 :
            /\ YieldsAsFirst(a, x[2]) /\ ~AtGoal(a, x[2])
            /\ YieldsAsSecond(b, x[2]) /\ ~AtGoal(b, x[2])
            /\ VelAt(2, c) = MAX_VEL

----------------------------------------------------------------------------
\* the time to the next event computed at event k, in ticks
DtAt(k) == EventDt(x[k], x_goal, MaximalVelocity(x[k], x_goal))

\* dt is a number of at most n ticks
AtMost(dt, n) == dt[1] = -1 \/ (dt[1] = 0 /\ dt[2] <= n)

\* C20: at an event where the point (x_i, x_j) of a pair lies on the tested
\* edge of one of its intersections, anywhere but at the terminal corner of the
\* edge, and the drone along the edge is moving, the computed dt is at most the
\* time that drone needs to the far end of the edge; the first corner of the
\* edge, on the axis, included.
C20_OnEdgeEvent ==
    pc # "idle" /\ n_drones > 1 =>
        \A k \in VelocityEvents : \A ij \in Pairs : \A c \in 1..Len(Inters(ij[1], ij[2])) :
            LET inter == Inters(ij[1], ij[2])[c]
                xi == x[k][ij[1]]
                xj == x[k][ij[2]]
            IN  IF inter.orientation = 1
                THEN (/\ xi = inter.interval_1[1]
                      /\ 0 <= xj
                      /\ xj < inter.interval_2[2]
                      /\ VelAt(k, ij[2]) > 0)
                        => AtMost(DtAt(k), inter.interval_2[2] - xj)
                ELSE (/\ xj = inter.interval_2[1]
                      /\ 0 <= xi
                      /\ xi < inter.interval_1[2]
                      /\ VelAt(k, ij[1]) > 0)
                        => AtMost(DtAt(k), inter.interval_1[2] - xi)

----------------------------------------------------------------------------
\* the iterations of the loop that appended an event
Iterations == Len(x) - 1

\* the Intersections of the conflict table, over the pairs of the set S
RECURSIVE CountInters(_)
CountInters(S) ==
    IF S = {} THEN 0
    ELSE LET ij == CHOOSE p \in S : TRUE
         IN  Len(Inters(ij[1], ij[2])) + CountInters(S \ {ij})

\* event k is the arrival of a drone at its goal
GoalArrival(k) == \E r \in 1..n_drones : x[k - 1][r] < x_goal[r] /\ x[k][r] = x_goal[r]

\* at event k a pair reaches the tested edge of one of its intersections, or,
\* from a point of that edge, its far end
EdgeEvent(k) ==
    \E ij \in Pairs : \E c \in 1..Len(Inters(ij[1], ij[2])) :
        LET inter == Inters(ij[1], ij[2])[c]
            i == ij[1]
            j == ij[2]
        IN  IF inter.orientation = 1
            THEN \/ /\ x[k - 1][i] < inter.interval_1[1]
                    /\ x[k][i] = inter.interval_1[1]
                    /\ x[k][j] <= inter.interval_2[2]
                 \/ /\ x[k - 1][i] = inter.interval_1[1]
                    /\ x[k - 1][j] < inter.interval_2[2]
                    /\ x[k][j] = inter.interval_2[2]
            ELSE \/ /\ x[k - 1][j] < inter.interval_2[1]
                    /\ x[k][j] = inter.interval_2[1]
                    /\ x[k][i] <= inter.interval_1[2]
                 \/ /\ x[k - 1][j] = inter.interval_2[1]
                    /\ x[k - 1][i] < inter.interval_1[2]
                    /\ x[k][i] = inter.interval_1[2]

\* C21: every iteration of the loop ends at the arrival of a drone at its goal
\* or at an edge event of an intersection, and the loop makes at most as many
\* iterations as there are drones plus four edges per Intersection of the
\* conflict table.
C21_EventBound ==
    pc # "idle" /\ n_drones > 1 =>
        /\ \A k \in 2..Len(x) : GoalArrival(k) \/ EdgeEvent(k)
        /\ Iterations <= n_drones + 4 * CountInters(Pairs)

\* a call of three drones with conflicts has returned after iterations that
\* ended at edge events and at goal arrivals
C21_Witness ==
    /\ Returned
    /\ n_drones = 3
    /\ CountInters(Pairs) >= 2
    /\ \E k \in 2..Len(x) : EdgeEvent(k) /\ ~GoalArrival(k)
    /\ \E k \in 2..Len(x) : GoalArrival(k) /\ ~EdgeEvent(k)
    /\ Iterations >= 4

----------------------------------------------------------------------------
\* a call of stop_thread has set the flag and has returned
StopReturned ==
    is_stopped /\ ~(caller.pc \in {"body", "exit"} /\ caller.call.op = "stop_thread")

\* C22: once stop_thread has returned the pipeline thread is in no tick that
\* it started after that return: it takes the lock for perceive, decide and
\* visualize no more.  (A tick running when stop_thread is called ends before
\* stop_thread gets the lock, so every tick found with the flag set was
\* started after the return.)
C22_StopThread == StopReturned => tick \notin {"perceive", "decide", "visualize"}

----------------------------------------------------------------------------
\* C23: at every event of a call every drone is between 0 and the length of
\* its path; a drone that has reached its goal has velocity 0 at every later
\* event at which velocities are computed, and stays at the length of its
\* path.
C23_NoOvershoot ==
    pc # "idle" /\ n_drones > 1 =>
        /\ \A k \in 1..Len(x) : \A r \in 1..n_drones : 0 <= x[k][r] /\ x[k][r] <= x_goal[r]
        /\ \A k \in 1..Len(x) : \A r \in 1..n_drones :
                x[k][r] = x_goal[r] =>
                    \A m \in k..Len(x) :
                        /\ x[m][r] = x_goal[r]
                        /\ m \in VelocityEvents => VelAt(m, r) = 0

\* a drone has reached its goal while another, held at an intersection, was
\* still on its way, and events have followed the arrival
C23_Witness ==
    /\ Returned
    /\ \E r \in 1..n_drones, s \in 1..n_drones, k \in 2..Len(x) :
            /\ k + 1 < Len(x)
            /\ x[k - 1][r] < x_goal[r]
            /\ x[k][r] = x_goal[r]
            /\ x[k][s] < x_goal[s]
            /\ VelAt(k - 1, s) = 0

----------------------------------------------------------------------------
\* VisualizationPublisher: visualize makes one marker per drone of the
\* collection given to the constructor and publishes them.

\* representations.Constants.COLORS
COLORS == <<"BLUE", "YELLOW", "PINK", "GREEN", "WHITE">>

\* Bound of the model: the drones of a collection
MaxDrones == 3

\* what the loop of visualize finds in the collection: an object with the
\* attributes cf_id and pose, or something without them, such as the key of a
\* dict
DroneKinds == {"object", "key"}

\* the collections of drones a call of visualize may find
Collections == UNION {[1..n -> DroneKinds] : n \in 0..MaxDrones}

\* self.__counter = self.__counter + 1; if self.__counter > 5: self.__counter = 0
NextCounter(c) == IF c + 1 > 5 THEN 0 ELSE c + 1

\* COLORS[self.__counter] can be read: a Python list takes the indexes from
\* -len to len - 1
ValidIndex(c) == -Len(COLORS) <= c /\ c < Len(COLORS)

\* visualize up to its loop: an empty MarkerArray
Visualize ==
    /\ vis_pc = "idle"
    /\ \E ds \in Collections : todo' = ds
    /\ markers' = <<>>
    /\ vis_error' = "none"
    /\ vis_pc' = "loop"
    /\ UNCHANGED <<counter, coord_vars, swarm_vars, cf_vars>>

\* one pass of the loop, a call of __visualize_drone: drone.cf_id raises
\* AttributeError for what has no such attribute, COLORS[self.__counter] raises
\* IndexError outside the list; an exception ends visualize
VisualizeDrone ==
    /\ vis_pc = "loop"
    /\ todo # <<>>
    /\ IF Head(todo) = "key"
       THEN /\ vis_error' = "AttributeError"
            /\ vis_pc' = "idle"
            /\ todo' = <<>>
            /\ UNCHANGED <<counter, markers>>
       ELSE IF ~ValidIndex(counter)
       THEN /\ vis_error' = "IndexError"
            /\ vis_pc' = "idle"
            /\ todo' = <<>>
            /\ UNCHANGED <<counter, markers>>
       ELSE /\ markers' = Append(markers, COLORS[counter + 1])
            /\ counter' = NextCounter(counter)
            /\ todo' = Tail(todo)
            /\ UNCHANGED <<vis_pc, vis_error>>
    /\ UNCHANGED <<coord_vars, swarm_vars, cf_vars>>

\* publisher.publish(drones_markers), after the loop
Publish ==
    /\ vis_pc = "loop"
    /\ todo = <<>>
    /\ vis_pc' = "idle"
    /\ UNCHANGED <<counter, todo, markers, vis_error, coord_vars, swarm_vars, cf_vars>>

NextVis ==
    \/ Visualize
    \/ VisualizeDrone
    \/ Publish

SpecVis == Init /\ [][NextVis]_vars

\* C24: whenever __visualize_drone is about to read COLORS[counter] for a
\* drone, the counter is an index of COLORS from 0 to 4, and no call of
\* visualize has ended with an IndexError.
C24_CounterInRange ==
    /\ vis_error # "IndexError"
    /\ vis_pc = "loop" /\ todo # <<>> /\ Head(todo) = "object" =>
            0 <= counter /\ counter < Len(COLORS)

----------------------------------------------------------------------------
\* get_delta() and get_x(), between two calls of coordinate
GetDelta == delta
GetX == self_x

\* C25: after every call of coordinate on a Coordinator, returned or raised,
\* the trace get_x() gives was computed from the conflict table get_delta()
\* gives: both describe the same call (or no call at all).
C25_AccessorsAgree == pc \in {"done", "failed"} => x_from = GetDelta

----------------------------------------------------------------------------
\* Crazyflie: the methods that command the drone.  CrazyflieServices and
\* CrazyflieStateMachine are outside this model: what is sent to them is kept
\* in cf_sent, in the order of the sending, and every answer of the state
\* machine (is_stopped, is_inactive, just_stopped) is a free choice.  Poses
\* are heights, in whole units.

\* representations.Constants.MAX_VEL_Z, in units per second
MAX_VEL_Z == 1

\* Bound of the model: the calls made on the Crazyflie
MaxCalls == 2

CfPoses == {0, 1, 2}
CfDurations == {-1, 2}

\* a message to the services ("takeoff", "goto", "land", "stop") or to the
\* state machine ("start_movement", "sm_stop")
Command(c, duration) == [cmd |-> c, duration |-> duration]

\* __takeoff(target_height): the duration from the height, then
\* services.takeoff
Takeoff(target_height) == <<Command("takeoff", target_height \div MAX_VEL_Z)>>

\* the duration __goto uses: computed from the distance when -1 is given
GotoDuration(goal, pose, duration) ==
    IF duration = -1 THEN Abs(goal - pose) \div MAX_VEL_Z ELSE duration

\* GotoCommands that starts the movement in the state machine before the goto
\* command is sent
GotoCommands_StartFirst(goal, pose, duration, stopped) ==
    (IF stopped THEN Takeoff(1) ELSE <<>>)
        \o <<Command("start_movement", GotoDuration(goal, pose, duration)),
             Command("goto", GotoDuration(goal, pose, duration))>>

\* what __goto sends, in order: takeoff if the state machine says stopped,
\* then services.goto, then state_machine.start_movement
GotoCommands(goal, pose, duration, stopped) ==
    (IF stopped THEN Takeoff(1) ELSE <<>>)
        \o <<Command("goto", GotoDuration(goal, pose, duration)),
             Command("start_movement", GotoDuration(goal, pose, duration))>>

\* Crazyflie.stop: state_machine.stop(), then services.stop
StopCommands == <<Command("sm_stop", 0), Command("stop", 0)>>

\* no method of the Crazyflie is running
CfIdle == cf_todo = <<>>

\* a method of the Crazyflie is entered: the call is noted and its commands
\* are left to send
Enter(call, commands) ==
    /\ Len(cf_calls) < MaxCalls
    /\ cf_calls' = Append(cf_calls, call)
    /\ cf_todo' = commands
    /\ UNCHANGED <<cf_sent, coord_vars, swarm_vars, vis_vars>>

\* goto(goal, duration=...), for a drone at some pose
CfGoto ==
    /\ CfIdle
    /\ \E goal \in CfPoses, pose \in CfPoses, duration \in CfDurations, stopped \in BOOLEAN :
            Enter([op |-> "goto", stopped |-> stopped],
                  GotoCommands(goal, pose, duration, stopped))

\* pause(): nothing for an inactive drone, but stop() if it has just stopped;
\* otherwise goto(self.stable_pose, duration=1)
CfPause ==
    /\ CfIdle
    /\ \E inactive \in BOOLEAN, just_stopped \in BOOLEAN, stopped \in BOOLEAN,
          pose \in CfPoses :
            Enter([op |-> IF inactive THEN "pause" ELSE "goto", stopped |-> stopped],
                  IF inactive
                  THEN IF just_stopped THEN StopCommands ELSE <<>>
                  ELSE GotoCommands(pose, pose, 1, stopped))

\* land(duration=...): services.land, then start_movement(duration, True)
CfLand ==
    /\ CfIdle
    /\ \E pose \in CfPoses, duration \in CfDurations :
            LET d == IF duration = -1 THEN pose \div MAX_VEL_Z ELSE duration
            IN  Enter([op |-> "land", stopped |-> FALSE],
                      <<Command("land", d), Command("start_movement", d)>>)

\* stop()
CfStop == CfIdle /\ Enter([op |-> "stop", stopped |-> FALSE], StopCommands)

\* the running method sends its next command
CfSend ==
    /\ cf_todo # <<>>
    /\ cf_sent' = Append(cf_sent, [call |-> Len(cf_calls), cmd |-> Head(cf_todo).cmd,
                                   duration |-> Head(cf_todo).duration])
    /\ cf_todo' = Tail(cf_todo)
    /\ UNCHANGED <<cf_calls, coord_vars, swarm_vars, vis_vars>>

NextCrazyflie ==
    \/ CfGoto
    \/ CfPause
    \/ CfLand
    \/ CfStop
    \/ CfSend

SpecCrazyflie == Init /\ [][NextCrazyflie]_vars

\* the places in cf_sent where call n has sent command c
SentBy(n, c) == {i \in DOMAIN cf_sent : cf_sent[i].call = n /\ cf_sent[i].cmd = c}

\* call n has sent all it had to send
Complete(n) == n < Len(cf_calls) \/ cf_todo = <<>>

\* C26: for every goto, a takeoff is sent only if the state machine said
\* stopped, and then before the goto command; start_movement is invoked after
\* the goto command was sent, with its duration, and once a goto is over it has
\* sent one goto command, one start_movement and, if stopped, one takeoff.
C26_GotoOrder ==
    \A n \in DOMAIN cf_calls :
        cf_calls[n].op = "goto" =>
            /\ SentBy(n, "takeoff") # {} => cf_calls[n].stopped
            /\ cf_calls[n].stopped =>
                    \A i \in SentBy(n, "goto") : \E j \in SentBy(n, "takeoff") : j < i
            /\ \A i \in SentBy(n, "start_movement") :
                    \E j \in SentBy(n, "goto") :
                        j < i /\ cf_sent[j].duration = cf_sent[i].duration
            /\ Cardinality(SentBy(n, "goto")) <= 1
            /\ Cardinality(SentBy(n, "start_movement")) <= 1
            /\ Cardinality(SentBy(n, "takeoff")) <= 1
            /\ Complete(n) =>
                    /\ Cardinality(SentBy(n, "goto")) = 1
                    /\ Cardinality(SentBy(n, "start_movement")) = 1
                    /\ cf_calls[n].stopped => Cardinality(SentBy(n, "takeoff")) = 1

\* a goto of a stopped drone and a goto of a flying drone have both ended
C26_Witness ==
    /\ cf_todo = <<>>
    /\ \E n \in DOMAIN cf_calls, m \in DOMAIN cf_calls :
            /\ cf_calls[n].op = "goto" /\ cf_calls[n].stopped
            /\ cf_calls[m].op = "goto" /\ ~cf_calls[m].stopped
            /\ SentBy(n, "takeoff") # {}
            /\ SentBy(m, "takeoff") = {}
            /\ SentBy(m, "start_movement") # {}

====
